---- MODULE Spec2Model ----
(***************************************************************************)
(* Game of Life on a torus with wormholes: a model of                      *)
(* archive/srcs/game_of_life_wormhole.py (class GameOfLifeWithWormholes).  *)
(*                                                                         *)
(* A coordinate is the pair <<y, x>> (row, column).  A grid is a function  *)
(* from the coordinates of a height x width board to {0, 1}; a tunnel map  *)
(* is a function from the same coordinates to RGB triples; a wormhole      *)
(* table (a Python dict) is a function whose DOMAIN is its set of keys.    *)
(***************************************************************************)
EXTENDS Integers, Sequences, FiniteSets

VARIABLES
    height,        \* self.height
    width,         \* self.width
    grid,          \* self.grid
    h_tunnel_map,  \* self.h_tunnel_map
    v_tunnel_map,  \* self.v_tunnel_map
    h_wormholes,   \* self.h_wormholes
    v_wormholes,   \* self.v_wormholes
    call,          \* the method called last, with its arguments
    ret,           \* the value that call returned
    old_grid       \* self.grid when the last step() or run_simulation() began

vars == <<height, width, grid, h_tunnel_map, v_tunnel_map,
          h_wormholes, v_wormholes, call, ret, old_grid>>

(* ---------------------------- bounds ----------------------------------- *)
MaxHeight == 3
MaxWidth == 3
MaxCells == 9
MaxMarked == 2
MaxWormCells == 4
MaxSteps == 2

(* ---------------------------- colours ---------------------------------- *)
Black == <<0, 0, 0>>
Red == <<255, 0, 0>>
Blue == <<0, 0, 255>>
Colors == {Black, Red, Blue}

(* ---------------------------- helpers ---------------------------------- *)
CellsOf(h, w) == (0 .. h - 1) \X (0 .. w - 1)
Cells == CellsOf(height, width)

\* range(self.height) x range(self.width) in row-major order: the i-th cell
CellAt(i) == <<i \div width, i % width>>

EmptyTable == [c \in {} |-> c]

(* ------------------ _build_wormhole_connections ------------------------ *)
\* color_to_positions after scanning the cells with index < i: a function
\* from the colours met so far to the sequence of their positions
RECURSIVE color_to_positions(_, _)
color_to_positions(tunnel_map, i) ==
    IF i = 0 THEN [c \in {} |-> <<>>]
    ELSE LET acc == color_to_positions(tunnel_map, i - 1)
             pos == CellAt(i - 1)
             pixel == tunnel_map[pos]
         IN IF pixel # Black
            THEN [c \in DOMAIN acc \cup {pixel} |->
                     IF c = pixel
                     THEN (IF pixel \in DOMAIN acc THEN acc[pixel] ELSE <<>>) \o <<pos>>
                     ELSE acc[c]]
            ELSE acc

\* the dict's keys in insertion order (order of first appearance in the scan)
RECURSIVE color_order(_, _)
color_order(tunnel_map, i) ==
    IF i = 0 THEN <<>>
    ELSE LET acc == color_order(tunnel_map, i - 1)
             pixel == tunnel_map[CellAt(i - 1)]
         IN IF pixel # Black /\ ~(\E k \in 1 .. Len(acc) : acc[k] = pixel)
            THEN Append(acc, pixel)
            ELSE acc

\* wormhole_map[pos1] = pos2; wormhole_map[pos2] = pos1
connect_one_way(wormhole_map, positions) ==
    IF Len(positions) = 2
    THEN LET pos1 == positions[1]
             pos2 == positions[2]
         IN [k \in DOMAIN wormhole_map \cup {pos1} |->
                IF k = pos1 THEN pos2 ELSE wormhole_map[k]]
    ELSE wormhole_map

connect_first_two(wormhole_map, positions) ==
    IF Len(positions) >= 2
    THEN LET pos1 == positions[1]
             pos2 == positions[2]
         IN [k \in DOMAIN wormhole_map \cup {pos1, pos2} |->
                IF k = pos2 THEN pos1
                ELSE IF k = pos1 THEN pos2
                ELSE wormhole_map[k]]
    ELSE wormhole_map

connect(wormhole_map, positions) ==
    IF Len(positions) = 2
    THEN LET pos1 == positions[1]
             pos2 == positions[2]
         IN [k \in DOMAIN wormhole_map \cup {pos1, pos2} |->
                IF k = pos2 THEN pos1
                ELSE IF k = pos1 THEN pos2
                ELSE wormhole_map[k]]
    ELSE wormhole_map

RECURSIVE connect_all(_, _, _)
connect_all(groups, order, j) ==
    IF j = 0 THEN EmptyTable
    ELSE connect(connect_all(groups, order, j - 1), groups[order[j]])

build_wormhole_connections(tunnel_map) ==
    LET n == height * width
        order == color_order(tunnel_map, n)
    IN connect_all(color_to_positions(tunnel_map, n), order, Len(order))

(* ---------------------- _get_wormhole_neighbor ------------------------- *)
\* new_y = (y + dy) % self.height; new_x = (x + dx) % self.width
regular_neighbor_no_wrap(y, x, dy, dx) == <<y + dy, x + dx>>

regular_neighbor_height_for_width(y, x, dy, dx) ==
    <<(y + dy) % height, (x + dx) % height>>

regular_neighbor(y, x, dy, dx) == <<(y + dy) % height, (x + dx) % width>>

\* pure horizontal movement from a key of h_wormholes
horizontal_exit_no_step(y, x, dx) == h_wormholes[<<y, x>>]

horizontal_exit_no_modulo(y, x, dx) ==
    LET ny == h_wormholes[<<y, x>>][1]
        nx == h_wormholes[<<y, x>>][2]
    IN IF dx > 0 THEN <<ny, nx + 1>> ELSE <<ny, nx - 1>>

horizontal_exit(y, x, dx) ==
    LET ny == h_wormholes[<<y, x>>][1]
        nx == h_wormholes[<<y, x>>][2]
    IN IF dx > 0 THEN <<ny, (nx + 1) % width>> ELSE <<ny, (nx - 1) % width>>

\* pure vertical movement from a key of v_wormholes
vertical_exit(y, x, dy) ==
    LET ny == v_wormholes[<<y, x>>][1]
        nx == v_wormholes[<<y, x>>][2]
    IN IF dy > 0 THEN <<(ny + 1) % height, nx>> ELSE <<(ny - 1) % height, nx>>

\* the four diagonal exits
top_exit(y, x, dx) ==
    LET ny == v_wormholes[<<y, x>>][1]
        nx == v_wormholes[<<y, x>>][2]
        new_x == (nx + dx) % width
    IN <<(ny - 1) % height, new_x>>

right_exit(y, x, dy) ==
    LET ny == h_wormholes[<<y, x>>][1]
        nx == h_wormholes[<<y, x>>][2]
        new_y == (ny + dy) % height
    IN <<new_y, (nx + 1) % width>>

bottom_exit(y, x, dx) ==
    LET ny == v_wormholes[<<y, x>>][1]
        nx == v_wormholes[<<y, x>>][2]
        new_x == (nx + dx) % width
    IN <<(ny + 1) % height, new_x>>

left_exit(y, x, dy) ==
    LET ny == h_wormholes[<<y, x>>][1]
        nx == h_wormholes[<<y, x>>][2]
        new_y == (ny + dy) % height
    IN <<new_y, (nx - 1) % width>>

\* which of the four diagonal checks returns, tried in the order of the code
diagonal_rule_right_first(y, x, dy, dx) ==
    IF dx > 0 /\ <<y, x>> \in DOMAIN h_wormholes THEN "right"
    ELSE IF dy < 0 /\ <<y, x>> \in DOMAIN v_wormholes THEN "top"
    ELSE IF dy > 0 /\ <<y, x>> \in DOMAIN v_wormholes THEN "bottom"
    ELSE IF dx < 0 /\ <<y, x>> \in DOMAIN h_wormholes THEN "left"
    ELSE "none"

diagonal_rule(y, x, dy, dx) ==
    IF dy < 0 /\ <<y, x>> \in DOMAIN v_wormholes THEN "top"
    ELSE IF dx > 0 /\ <<y, x>> \in DOMAIN h_wormholes THEN "right"
    ELSE IF dy > 0 /\ <<y, x>> \in DOMAIN v_wormholes THEN "bottom"
    ELSE IF dx < 0 /\ <<y, x>> \in DOMAIN h_wormholes THEN "left"
    ELSE "none"

get_wormhole_neighbor(y, x, dy, dx) ==
    IF dy = 0 /\ dx # 0 /\ <<y, x>> \in DOMAIN h_wormholes
    THEN horizontal_exit(y, x, dx)
    ELSE IF dx = 0 /\ dy # 0 /\ <<y, x>> \in DOMAIN v_wormholes
    THEN vertical_exit(y, x, dy)
    ELSE IF dy # 0 /\ dx # 0 /\ diagonal_rule(y, x, dy, dx) # "none"
    THEN LET rule == diagonal_rule(y, x, dy, dx)
         IN IF rule = "top" THEN top_exit(y, x, dx)
            ELSE IF rule = "right" THEN right_exit(y, x, dy)
            ELSE IF rule = "bottom" THEN bottom_exit(y, x, dx)
            ELSE left_exit(y, x, dy)
    ELSE regular_neighbor(y, x, dy, dx)

(* -------------------------- _count_neighbors --------------------------- *)
\* for dy in [-1, 0, 1]: for dx in [-1, 0, 1]: the k-th pair, k in 1..9
Directions ==
    << <<-1, -1>>, <<-1, 0>>, <<-1, 1>>,
       <<0, -1>>,  <<0, 0>>,  <<0, 1>>,
       <<1, -1>>,  <<1, 0>>,  <<1, 1>> >>

\* if 0 <= ny < self.height and 0 <= nx < self.width
in_bounds(ny, nx) == 0 <= ny /\ ny < height /\ 0 <= nx /\ nx < width

RECURSIVE count_loop(_, _, _, _)
count_loop(g, y, x, k) ==
    IF k = 0 THEN 0
    ELSE LET count == count_loop(g, y, x, k - 1)
             dy == Directions[k][1]
             dx == Directions[k][2]
         IN IF dy = 0 /\ dx = 0 THEN count
            ELSE LET n == get_wormhole_neighbor(y, x, dy, dx)
                 IN IF in_bounds(n[1], n[2]) THEN count + g[n] ELSE count

count_neighbors_with_self(g, y, x) ==
    count_loop(g, y, x, Len(Directions)) + g[<<y, x>>]

count_neighbors(g, y, x) == count_loop(g, y, x, Len(Directions))

(* -------------------------------- step --------------------------------- *)
\* one iteration of the loop body for the cell (y, x): reads the grid the
\* step started from (self.grid), writes new_grid
step_cell_in_place(g, new_grid, y, x) ==
    LET neighbors == count_neighbors(new_grid, y, x)
    IN IF new_grid[<<y, x>>] = 1
       THEN IF neighbors < 2 \/ neighbors > 3
            THEN [new_grid EXCEPT ![<<y, x>>] = 0]
            ELSE new_grid
       ELSE IF neighbors = 3
            THEN [new_grid EXCEPT ![<<y, x>>] = 1]
            ELSE new_grid

step_cell(g, new_grid, y, x) ==
    LET neighbors == count_neighbors(g, y, x)
    IN IF g[<<y, x>>] = 1
       THEN IF neighbors < 2 \/ neighbors > 3
            THEN [new_grid EXCEPT ![<<y, x>>] = 0]
            ELSE new_grid
       ELSE IF neighbors = 3
            THEN [new_grid EXCEPT ![<<y, x>>] = 1]
            ELSE new_grid

\* new_grid after the first i cells in row-major order; new_grid starts as
\* np.copy(self.grid)
RECURSIVE step_loop(_, _)
step_loop(g, i) ==
    IF i = 0 THEN g
    ELSE LET c == CellAt(i - 1)
         IN step_cell(g, step_loop(g, i - 1), c[1], c[2])

step(g) == step_loop(g, height * width)

(* --------------------------- run_simulation ---------------------------- *)
\* for _ in range(steps): self.step()   -- the grid after iterations i..steps-1
RECURSIVE run_loop_one_more(_, _, _)
run_loop_one_more(g, i, steps) ==
    IF i <= steps THEN run_loop_one_more(step(g), i + 1, steps) ELSE g

RECURSIVE run_loop(_, _, _)
run_loop(g, i, steps) ==
    IF i < steps THEN run_loop(step(g), i + 1, steps) ELSE g

run_simulation(g, steps) == run_loop(g, 0, steps)

(* ------------------------------ states --------------------------------- *)
Shapes == {s \in (1 .. MaxHeight) \X (1 .. MaxWidth) : s[1] * s[2] <= MaxCells}

Marked(m) == {c \in DOMAIN m : m[c] # Black}

\* tunnel maps of an h x w board over the colours cs with at most k marked pixels
TunnelMaps(h, w, cs, k) ==
    {m \in [CellsOf(h, w) -> cs] : Cardinality(Marked(m)) <= k}

\* tunnel maps of an h x w board that are blank or hold one wormhole: two red
\* pixels
PairMaps(h, w) ==
    {m \in [CellsOf(h, w) -> {Black, Red}] : Cardinality(Marked(m)) \in {0, 2}}

BlankMap(h, w) == [c \in CellsOf(h, w) |-> Black]

\* __init__: the state after construction from a start grid and two tunnel maps
Constructed(h, w, g, hm, vm) ==
    /\ height = h
    /\ width = w
    /\ grid = g
    /\ h_tunnel_map = hm
    /\ v_tunnel_map = vm
    /\ h_wormholes = build_wormhole_connections(hm)
    /\ v_wormholes = build_wormhole_connections(vm)
    /\ call = [op |-> "init"]
    /\ ret = 0
    /\ old_grid = g

\* Engine: every start grid without wormholes on every shape, and every start
\* grid with every pair of tunnel maps of at most one wormhole each on the
\* small shapes.
Init ==
    \E s \in Shapes :
       \E g \in [CellsOf(s[1], s[2]) -> {0, 1}] :
          \/ Constructed(s[1], s[2], g, BlankMap(s[1], s[2]), BlankMap(s[1], s[2]))
          \/ /\ s[1] * s[2] <= MaxWormCells
             /\ \E hm, vm \in PairMaps(s[1], s[2]) :
                   Constructed(s[1], s[2], g, hm, vm)

\* Neighbour resolution: every pair of sparsely marked tunnel maps on every
\* shape.  Resolution never reads the grid; with every cell alive the
\* neighbour count is the number of directions that contributed a cell.
InitNeighbor ==
    \E s \in Shapes :
       \E hm, vm \in TunnelMaps(s[1], s[2], {Black, Red}, MaxMarked) :
          Constructed(s[1], s[2], [c \in CellsOf(s[1], s[2]) |-> 1], hm, vm)

\* Builder: every tunnel map over three colours on every shape, as the
\* horizontal or as the vertical map.
InitBuild ==
    \E s \in Shapes :
       \E m \in [CellsOf(s[1], s[2]) -> Colors] :
          LET g == [c \in CellsOf(s[1], s[2]) |-> 0]
          IN \/ Constructed(s[1], s[2], g, m, BlankMap(s[1], s[2]))
             \/ Constructed(s[1], s[2], g, BlankMap(s[1], s[2]), m)

(* ------------------------------ actions -------------------------------- *)
Step ==
    /\ grid' = step(grid)
    /\ old_grid' = grid
    /\ call' = [op |-> "step"]
    /\ ret' = grid'
    /\ UNCHANGED <<height, width, h_tunnel_map, v_tunnel_map, h_wormholes, v_wormholes>>

RunSimulation ==
    \E steps \in 0 .. MaxSteps :
       /\ grid' = run_simulation(grid, steps)
       /\ old_grid' = grid
       /\ call' = [op |-> "run_simulation", steps |-> steps]
       /\ ret' = grid'
       /\ UNCHANGED <<height, width, h_tunnel_map, v_tunnel_map, h_wormholes, v_wormholes>>

\* the engine is single-threaded: a query's result is taken by its caller
\* (Return) before the next query is made
QueryOps == {"get_wormhole_neighbor", "count_neighbors", "build_wormhole_connections"}

GetWormholeNeighbor ==
    /\ call.op \notin QueryOps
    /\ \E c \in Cells : \E dy, dx \in {-1, 0, 1} :
          /\ ~(dy = 0 /\ dx = 0)
          /\ call' = [op |-> "get_wormhole_neighbor",
                      y |-> c[1], x |-> c[2], dy |-> dy, dx |-> dx]
          /\ ret' = get_wormhole_neighbor(c[1], c[2], dy, dx)
    /\ UNCHANGED <<height, width, grid, old_grid, h_tunnel_map, v_tunnel_map,
                   h_wormholes, v_wormholes>>

CountNeighbors ==
    /\ call.op \notin QueryOps
    /\ \E c \in Cells :
          /\ call' = [op |-> "count_neighbors", y |-> c[1], x |-> c[2]]
          /\ ret' = count_neighbors(grid, c[1], c[2])
    /\ UNCHANGED <<height, width, grid, old_grid, h_tunnel_map, v_tunnel_map,
                   h_wormholes, v_wormholes>>

BuildWormholeConnections ==
    /\ call.op \notin QueryOps
    /\ \E m \in {"h", "v"} :
          /\ call' = [op |-> "build_wormhole_connections", map |-> m]
          /\ ret' = build_wormhole_connections(
                       IF m = "h" THEN h_tunnel_map ELSE v_tunnel_map)
    /\ UNCHANGED <<height, width, grid, old_grid, h_tunnel_map, v_tunnel_map,
                   h_wormholes, v_wormholes>>

Return ==
    /\ call.op \in QueryOps
    /\ call' = [op |-> "init"]
    /\ ret' = 0
    /\ UNCHANGED <<height, width, grid, old_grid, h_tunnel_map, v_tunnel_map,
                   h_wormholes, v_wormholes>>

Next == Step \/ RunSimulation
NextNeighbor == GetWormholeNeighbor \/ CountNeighbors \/ Return
NextBuild == BuildWormholeConnections \/ Return

Spec == Init /\ [][Next]_vars
SpecNeighbor == InitNeighbor /\ [][NextNeighbor]_vars
SpecBuild == InitBuild /\ [][NextBuild]_vars

(* ======================= reference definitions ========================= *)
\* Conway's rule: the next value of a cell with value v and n live neighbours
ConwayRule(v, n) ==
    IF v = 1 THEN (IF n = 2 \/ n = 3 THEN 1 ELSE 0)
    ELSE (IF n = 3 THEN 1 ELSE 0)

\* the cell of the torus one step from (y, x) in direction (dy, dx)
Torus(y, x, dy, dx) == <<(y + dy) % height, (x + dx) % width>>

\* the sum of the 8 toroidal neighbours of (y, x) in g
ToroidalSum(g, y, x) ==
      g[Torus(y, x, -1, -1)] + g[Torus(y, x, -1, 0)] + g[Torus(y, x, -1, 1)]
    + g[Torus(y, x, 0, -1)]                          + g[Torus(y, x, 0, 1)]
    + g[Torus(y, x, 1, -1)]  + g[Torus(y, x, 1, 0)]  + g[Torus(y, x, 1, 1)]

NoWormholes == DOMAIN h_wormholes = {} /\ DOMAIN v_wormholes = {}

InRange(c) == 0 <= c[1] /\ c[1] < height /\ 0 <= c[2] /\ c[2] < width

\* step applied n times
RECURSIVE StepTimes(_, _)
StepTimes(g, n) == IF n = 0 THEN g ELSE step(StepTimes(g, n - 1))

\* the number of cells of the map m that carry the colour of the cell c
SameColour(m, c) == Cardinality({d \in DOMAIN m : m[d] = m[c]})

Symmetric(t) == \A k \in DOMAIN t : t[k] \in DOMAIN t /\ t[t[k]] = k

\* the keys of the table t built from the map m are the non-black cells whose
\* colour is carried by exactly two cells, and so are its values
KeysArePairsOf(t, m) ==
    /\ \A c \in Cells : c \in DOMAIN t <=> (m[c] # Black /\ SameColour(m, c) = 2)
    /\ \A k \in DOMAIN t :
          t[k] \in Cells /\ m[t[k]] # Black /\ SameColour(m, t[k]) = 2

(* ============================== claims ================================= *)

\* C1: with both wormhole tables empty, step() leaves every cell with the
\* Conway rule applied to the sum of its 8 toroidal neighbours in the grid
\* before the step.
C1_NoWormholesIsToroidalLife ==
    (call.op = "step" /\ NoWormholes) =>
        \A c \in Cells :
           grid[c] = ConwayRule(old_grid[c], ToroidalSum(old_grid, c[1], c[2]))

\* a step without wormholes on a non-square board in which a cell was born
\* and a cell survived
C1_Witness ==
    /\ call.op = "step"
    /\ NoWormholes
    /\ height # width
    /\ \E c \in Cells : old_grid[c] = 0 /\ grid[c] = 1
    /\ \E c \in Cells : old_grid[c] = 1 /\ grid[c] = 1

\* C2: step() is a simultaneous update: every cell's next value is the rule
\* applied to its own value and its wormhole-aware neighbour count in the
\* grid before the step, and the grid keeps its dimensions.
C2_SimultaneousUpdate ==
    call.op = "step" =>
        /\ DOMAIN grid = DOMAIN old_grid
        /\ DOMAIN grid = Cells
        /\ \A c \in Cells :
              grid[c] = ConwayRule(old_grid[c], count_neighbors(old_grid, c[1], c[2]))

\* a step with a wormhole in which a cell was born and a cell died
C2_Witness ==
    /\ call.op = "step"
    /\ ~NoWormholes
    /\ \E c \in Cells : old_grid[c] = 0 /\ grid[c] = 1
    /\ \E c \in Cells : old_grid[c] = 1 /\ grid[c] = 0

\* C3: every built wormhole table is symmetric: if k is mapped to v then v is
\* a key and is mapped to k.
C3_TableSymmetric ==
    /\ Symmetric(h_wormholes)
    /\ Symmetric(v_wormholes)
    /\ call.op = "build_wormhole_connections" => Symmetric(ret)

\* a built table with two pairs
C3_Witness ==
    /\ call.op = "build_wormhole_connections"
    /\ Cardinality(DOMAIN ret) = 4

\* C4: a coordinate is a key of the built table iff its colour is non-black
\* and carried by exactly two cells of the map; cells of colours carried once
\* or three or more times, and black cells, are neither keys nor values.
C4_KeysArePairs ==
    /\ KeysArePairsOf(h_wormholes, h_tunnel_map)
    /\ KeysArePairsOf(v_wormholes, v_tunnel_map)
    /\ call.op = "build_wormhole_connections" =>
          KeysArePairsOf(ret, IF call.map = "h" THEN h_tunnel_map ELSE v_tunnel_map)

\* a map with a colour carried three or more times, a colour carried twice
\* and a black cell: the table built from it holds the one pair
C4_Witness ==
    /\ call.op = "build_wormhole_connections"
    /\ call.map = "h"
    /\ \E c \in Cells : h_tunnel_map[c] # Black /\ SameColour(h_tunnel_map, c) >= 3
    /\ \E c \in Cells : h_tunnel_map[c] = Black
    /\ Cardinality(DOMAIN ret) = 2

\* C5 as stated: pure horizontal movement from a key of the horizontal table
\* with pair (py, px) resolves to (py, (px + dx) mod width), which is not the
\* paired cell itself.
C5_PastThePairNeverThePair ==
    (/\ call.op = "get_wormhole_neighbor"
     /\ call.dy = 0
     /\ <<call.y, call.x>> \in DOMAIN h_wormholes) =>
        LET p == h_wormholes[<<call.y, call.x>>]
        IN ret = <<p[1], (p[2] + call.dx) % width>> /\ ret # p

\* C5 amended: the resolved neighbour is (py, (px + dx) mod width); it is not
\* the paired cell when width >= 2, and on a 1 x N board whose horizontal
\* wormhole pairs column 0 with column N-1, moving right from column N-1
\* resolves to column 1 mod N.
C5_PastThePair ==
    (/\ call.op = "get_wormhole_neighbor"
     /\ call.dy = 0
     /\ <<call.y, call.x>> \in DOMAIN h_wormholes) =>
        LET p == h_wormholes[<<call.y, call.x>>]
        IN /\ ret = <<p[1], (p[2] + call.dx) % width>>
           /\ width >= 2 => ret # p
           /\ (/\ height = 1
               /\ call.x = width - 1
               /\ p = <<0, 0>>
               /\ call.dx = 1) => ret = <<0, 1 % width>>

\* the 1 x N scenario: moving right from column N-1, paired with column 0
C5_Witness ==
    /\ call.op = "get_wormhole_neighbor"
    /\ height = 1
    /\ width = 3
    /\ call.dy = 0
    /\ call.dx = 1
    /\ call.x = width - 1
    /\ <<0, call.x>> \in DOMAIN h_wormholes
    /\ h_wormholes[<<0, call.x>>] = <<0, 0>>
    /\ ret = <<0, 1>>

\* C6: diagonal movement follows the precedence top > right > bottom > left:
\* from a key of both tables, moving up resolves via the vertical table to
\* ((vy - 1) mod height, (vx + dx) mod width), moving down-right via the
\* horizontal table, moving down-left via the vertical table; from a key of
\* one table only the exit is through that table; from a cell in neither
\* table the result is the toroidal step.
C6_DiagonalPrecedence ==
    (call.op = "get_wormhole_neighbor" /\ call.dy # 0 /\ call.dx # 0) =>
        LET c == <<call.y, call.x>>
            inH == c \in DOMAIN h_wormholes
            inV == c \in DOMAIN v_wormholes
        IN /\ (inH /\ inV /\ call.dy = -1) =>
                 ret = <<(v_wormholes[c][1] - 1) % height,
                         (v_wormholes[c][2] + call.dx) % width>>
           /\ (inH /\ inV /\ call.dy = 1 /\ call.dx = 1) =>
                 ret = <<(h_wormholes[c][1] + 1) % height,
                         (h_wormholes[c][2] + 1) % width>>
           /\ (inH /\ inV /\ call.dy = 1 /\ call.dx = -1) =>
                 ret = <<(v_wormholes[c][1] + 1) % height,
                         (v_wormholes[c][2] - 1) % width>>
           /\ (inV /\ ~inH) =>
                 ret = <<(v_wormholes[c][1] + call.dy) % height,
                         (v_wormholes[c][2] + call.dx) % width>>
           /\ (inH /\ ~inV) =>
                 ret = <<(h_wormholes[c][1] + call.dy) % height,
                         (h_wormholes[c][2] + call.dx) % width>>
           /\ (~inH /\ ~inV) => ret = Torus(call.y, call.x, call.dy, call.dx)

\* moving up-right from a key of both tables, where the exit through the
\* horizontal table would have been another cell
C6_Witness ==
    /\ call.op = "get_wormhole_neighbor"
    /\ call.dy = -1
    /\ call.dx = 1
    /\ <<call.y, call.x>> \in DOMAIN h_wormholes
    /\ <<call.y, call.x>> \in DOMAIN v_wormholes
    /\ LET c == <<call.y, call.x>>
       IN /\ ret = <<(v_wormholes[c][1] - 1) % height, (v_wormholes[c][2] + 1) % width>>
          /\ ret # <<(h_wormholes[c][1] - 1) % height, (h_wormholes[c][2] + 1) % width>>

\* C7: run(steps) leaves the grid equal to step() applied steps times to the
\* grid before the call; run(0) leaves and returns that grid; and from every
\* starting grid and pair of tables (every constructed engine), run(a)
\* followed by run(b) ends in the grid of run(a + b).
C7_RunComposes ==
    /\ call.op = "run_simulation" =>
          /\ grid = StepTimes(old_grid, call.steps)
          /\ ret = grid
          /\ call.steps = 0 => grid = old_grid
    /\ call.op = "init" =>
          LET after == [n \in 0 .. 2 * MaxSteps |-> run_simulation(grid, n)]
          IN \A a, b \in 0 .. MaxSteps : run_simulation(after[a], b) = after[a + b]

\* a run of two steps with a wormhole whose second step changed the grid
C7_Witness ==
    /\ call.op = "run_simulation"
    /\ call.steps = 2
    /\ ~NoWormholes
    /\ grid # old_grid
    /\ grid # step(old_grid)

HorizontalBlinker == [c \in CellsOf(3, 3) |-> IF c[1] = 1 THEN 1 ELSE 0]
VerticalBlinker == [c \in CellsOf(3, 3) |-> IF c[2] = 1 THEN 1 ELSE 0]
AllAlive == [c \in CellsOf(3, 3) |-> 1]
AllDead == [c \in CellsOf(3, 3) |-> 0]

FromBlinker ==
    /\ height = 3
    /\ width = 3
    /\ NoWormholes
    /\ old_grid = HorizontalBlinker

\* C8 as stated: on the 3x3 torus without wormholes the horizontal blinker
\* becomes the vertical blinker after one step and is back after two.
C8_BlinkerOscillates ==
    FromBlinker =>
        /\ call.op = "step" => grid = VerticalBlinker
        /\ (call.op = "run_simulation" /\ call.steps = 1) => grid = VerticalBlinker
        /\ (call.op = "run_simulation" /\ call.steps = 2) => grid = HorizontalBlinker

\* C8 amended: on the 3x3 torus without wormholes the horizontal blinker
\* becomes the all-alive grid after one step (the centre column is alive and
\* the centre row stays alive) and the all-dead grid after two.
C8_BlinkerFillsThenDies ==
    FromBlinker =>
        /\ call.op = "step" => grid = AllAlive
        /\ (call.op = "run_simulation" /\ call.steps = 1) => grid = AllAlive
        /\ (call.op = "run_simulation" /\ call.steps = 2) => grid = AllDead

\* two steps from the horizontal blinker
C8_Witness ==
    /\ FromBlinker
    /\ call.op = "run_simulation"
    /\ call.steps = 2
    /\ grid = AllDead

\* C9: in every generation every cell is 0 or 1 and every cell's neighbour
\* count is in 0..8.
C9_CountInRange ==
    \A c \in Cells :
       /\ grid[c] \in {0, 1}
       /\ count_neighbors(grid, c[1], c[2]) \in 0 .. 8

\* a generation produced by a step, with a wormhole, in which a cell has 8
\* live neighbours
C9_Witness ==
    /\ call.op = "step"
    /\ ~NoWormholes
    /\ \E c \in Cells : count_neighbors(grid, c[1], c[2]) = 8

\* C10: every resolved neighbour is a cell of the grid, so the bounds check of
\* the neighbour count passes in all 8 directions and each contributes a cell
\* value (with every cell alive the count is 8).
C10_ResolvedInBounds ==
    /\ call.op = "get_wormhole_neighbor" => InRange(ret)
    /\ call.op = "count_neighbors" =>
          /\ \A k \in 1 .. Len(Directions) :
                Directions[k] # <<0, 0>> =>
                   InRange(get_wormhole_neighbor(call.y, call.x,
                                                 Directions[k][1], Directions[k][2]))
          /\ (\A c \in Cells : grid[c] = 1) => ret = 8

\* leaving a horizontal wormhole to the right of a pair in the last column:
\* the exit wraps to column 0
C10_Witness ==
    /\ call.op = "get_wormhole_neighbor"
    /\ call.dy = 0
    /\ call.dx = 1
    /\ width >= 2
    /\ <<call.y, call.x>> \in DOMAIN h_wormholes
    /\ h_wormholes[<<call.y, call.x>>][2] = width - 1
    /\ ret[2] = 0
====
